---- MODULE Spec2Model ----
(***************************************************************************)
(* normalize-exports: normalizeExports(exports, options) flattens the      *)
(* "exports" field of a package.json into a map subpath -> target.         *)
(*                                                                         *)
(* The model follows normalizeExports as src/unnamed/part_000 defines it    *)
(* (conditions replace the default ones, exclusions prune expansions).     *)
(*                                                                         *)
(* JavaScript strings are sequences of one-character strings, so that      *)
(* startsWith, endsWith, includes, split, indexOf, slice and replace are   *)
(* computed character by character as the code computes them.              *)
(*                                                                         *)
(* JavaScript values are records with the same fields whatever the type:   *)
(*   an exports node  [tag, str, items]   tag: "str" | "arr" | "obj" |     *)
(*                                             "null" | "undefined"        *)
(*     "arr": items is the sequence of elements                            *)
(*     "obj": items is the sequence of [key, value] pairs in insertion     *)
(*            order (Object.entries order: no key of the model is an       *)
(*            integer index, so insertion order is iteration order)        *)
(*   an outcome       [kind, val, msg]    kind: "string" | "undefined" |   *)
(*                                              "null" | "throw"           *)
(*     "throw": msg is the fixed part of the Error message, val the        *)
(*              interpolated string                                        *)
(***************************************************************************)
EXTENDS Naturals, Sequences, FiniteSets

----------------------------------------------------------------------------
(* String primitives *)

startsWith(s, p) ==
  /\ Len(p) <= Len(s)
  /\ \A i \in 1..Len(p) : s[i] = p[i]

endsWith(s, p) ==
  /\ Len(p) <= Len(s)
  /\ \A i \in 1..Len(p) : s[Len(s) - Len(p) + i] = p[i]

includes(s, c) == \E i \in 1..Len(s) : s[i] = c

\* (str.match(/\*/g) || []).length
countAsterisks(s) == Cardinality({i \in 1..Len(s) : s[i] = "*"})

\* 1-based position of the first occurrence of p in s, 0 when there is none
\* (String.prototype.indexOf + 1).
indexOf(s, p) ==
  LET hits == {i \in 1..(Len(s) + 1) :
                 /\ i + Len(p) - 1 <= Len(s)
                 /\ \A j \in 1..Len(p) : s[i + j - 1] = p[j]}
  IN IF hits = {} THEN 0 ELSE CHOOSE i \in hits : \A k \in hits : i <= k

\* s.split('*')[0] and s.split('*')[1] of a string holding at least one '*'
splitBase(s) == SubSeq(s, 1, indexOf(s, <<"*">>) - 1)

splitTrail(s) ==
  LET rest == SubSeq(s, indexOf(s, <<"*">>) + 1, Len(s))
  IN IF includes(rest, "*") THEN SubSeq(rest, 1, indexOf(rest, <<"*">>) - 1) ELSE rest

\* A copy that leaves the pattern as it is.
replaceAsterisk_keep(s, r) == s

\* s.replace('*', r): the first '*' only
replaceAsterisk(s, r) ==
  IF ~includes(s, "*") THEN s
  ELSE SubSeq(s, 1, indexOf(s, <<"*">>) - 1) \o r \o SubSeq(s, indexOf(s, <<"*">>) + 1, Len(s))

isNonEmptyArray(arr) == arr.tag = "arr" /\ Len(arr.items) > 0

containsSingleAsterisk(str) == countAsterisks(str) = 1

----------------------------------------------------------------------------
(* The strings of the model *)

str_node_addons == <<"n","o","d","e","-","a","d","d","o","n","s">>
str_node        == <<"n","o","d","e">>
str_import      == <<"i","m","p","o","r","t">>
str_require     == <<"r","e","q","u","i","r","e">>
str_default     == <<"d","e","f","a","u","l","t">>
str_worker      == <<"w","o","r","k","e","r">>

\* The default conditions without those of CommonJS and of native addons.
defaultConditions_esm == <<str_node, str_import, str_default>>

defaultConditions == <<str_node_addons, str_node, str_import, str_require, str_default>>

----------------------------------------------------------------------------
(* Values *)

StrNode(s)     == [tag |-> "str", str |-> s, items |-> <<>>]
ArrNode(elems) == [tag |-> "arr", str |-> <<>>, items |-> elems]
ObjNode(ents)  == [tag |-> "obj", str |-> <<>>, items |-> ents]
NullNode       == [tag |-> "null", str |-> <<>>, items |-> <<>>]
UndefinedNode  == [tag |-> "undefined", str |-> <<>>, items |-> <<>>]
Entry(k, v)    == [key |-> k, value |-> v]

String(s)      == [kind |-> "string", val |-> s, msg |-> ""]
Undefined      == [kind |-> "undefined", val |-> <<>>, msg |-> ""]
Null           == [kind |-> "null", val |-> <<>>, msg |-> ""]
Throw(m, s)    == [kind |-> "throw", val |-> s, msg |-> m]

Range(seq) == {seq[i] : i \in DOMAIN seq}

----------------------------------------------------------------------------
(* checkExportsConfiguration and matchConditions *)

\* A check that rejects an object only when none of its keys starts with '.'
\* after one that does.
checkExportsConfiguration_firstKey(exports) ==
  IF exports.tag \in {"arr", "obj"} THEN
    IF Len(exports.items) = 0 THEN "No entries found in exports map"
    ELSE IF exports.tag # "arr" THEN
      IF /\ ~startsWith(exports.items[1].key, <<".">>)
         /\ \E i \in DOMAIN exports.items : startsWith(exports.items[i].key, <<".">>)
        THEN "Invalid exports configuration"
        ELSE ""
    ELSE ""
  ELSE ""

\* The message checkExportsConfiguration throws, "" when it returns.
checkExportsConfiguration(exports) ==
  IF exports.tag \in {"arr", "obj"} THEN
    IF Len(exports.items) = 0 THEN "No entries found in exports map"
    ELSE IF exports.tag # "arr" THEN
      LET exportsKeys == [i \in DOMAIN exports.items |-> exports.items[i].key]
          keysStartingWithPeriod == SelectSeq(exportsKeys, LAMBDA key : startsWith(key, <<".">>))
      IN IF Len(keysStartingWithPeriod) # 0 /\ Len(keysStartingWithPeriod) # Len(exportsKeys)
           THEN "Invalid exports configuration"
           ELSE ""
    ELSE ""
  ELSE ""

\* A test for a truthy value: null is passed over like undefined.
isDefined_truthy(value) == value.kind \notin {"undefined", "null"}

\* typeof value !== 'undefined'
isDefined(value) == value.kind # "undefined"

\* A validation that accepts every target starting with '.'.
isInvalidTarget_period(exports) == exports.tag = "str" /\ ~startsWith(exports.str, <<".">>)

\* typeof exports === 'string' && !exports.startsWith('./')
isInvalidTarget(exports) == exports.tag = "str" /\ ~startsWith(exports.str, <<".", "/">>)

\* A matcher that recurses into every entry, whatever its key.
hasCondition_any(conditions, key) == TRUE

\* conditions.has(key)
hasCondition(conditions, key) == key \in conditions

RECURSIVE matchConditions(_, _)
RECURSIVE matchArray(_, _, _, _)
RECURSIVE matchObject(_, _, _)

\* A loop that keeps the first error caught, not the last.
matchArray_firstError(items, i, lastError, conditions) ==
  IF i > Len(items) THEN
    IF lastError.kind = "throw" THEN lastError ELSE Undefined
  ELSE
    LET value == matchConditions(items[i], conditions)
    IN IF value.kind = "throw"
         THEN matchArray(items, i + 1, IF lastError.kind = "throw" THEN lastError ELSE value,
                         conditions)
       ELSE IF isDefined(value) THEN value
       ELSE matchArray(items, i + 1, lastError, conditions)

\* A loop that passes over an Excluded element when a later one can be tried.
matchArray_skipNull(items, i, lastError, conditions) ==
  IF i > Len(items) THEN
    IF lastError.kind = "throw" THEN lastError ELSE Undefined
  ELSE
    LET value == matchConditions(items[i], conditions)
    IN IF value.kind = "throw" THEN matchArray(items, i + 1, value, conditions)
       ELSE IF isDefined(value) /\ (value.kind # "null" \/ i = Len(items)) THEN value
       ELSE matchArray(items, i + 1, lastError, conditions)

\* The for loop over an array, from element i on, lastError being the error
\* caught so far (Undefined when none).  A thrown error is an outcome of kind
\* "throw": the catch clause keeps it and the loop goes on.
matchArray(items, i, lastError, conditions) ==
  IF i > Len(items) THEN
    IF lastError.kind = "throw" THEN lastError ELSE Undefined
  ELSE
    LET value == matchConditions(items[i], conditions)
    IN IF value.kind = "throw" THEN matchArray(items, i + 1, value, conditions)
       ELSE IF isDefined(value) THEN value
       ELSE matchArray(items, i + 1, lastError, conditions)

\* The for loop over Object.entries(exports), from entry i on.  No try: an
\* error thrown by a recursive call leaves the loop.
matchObject(items, i, conditions) ==
  IF i > Len(items) THEN Undefined
  ELSE IF hasCondition(conditions, items[i].key) THEN
    LET value == matchConditions(items[i].value, conditions)
    IN IF value.kind = "throw" THEN value
       ELSE IF isDefined(value) THEN value
       ELSE matchObject(items, i + 1, conditions)
  ELSE matchObject(items, i + 1, conditions)

matchConditions(exports, conditions) ==
  IF exports.tag = "arr" THEN
    IF Len(exports.items) = 0 THEN Null
    ELSE matchArray(exports.items, 1, Undefined, conditions)
  ELSE IF exports.tag = "obj" THEN matchObject(exports.items, 1, conditions)
  ELSE IF isInvalidTarget(exports) THEN Throw("Invalid target", exports.str)
  ELSE IF exports.tag = "str" THEN String(exports.str)
  ELSE IF exports.tag = "null" THEN Null
  ELSE Undefined

----------------------------------------------------------------------------
(* Objects built by the code: sequences of [key, value] in insertion order *)

hasKey(obj, k) == \E i \in DOMAIN obj : obj[i].key = k

\* obj[k] = v
setKey(obj, k, v) ==
  IF hasKey(obj, k)
    THEN [i \in DOMAIN obj |-> IF obj[i].key = k THEN Entry(k, v) ELSE obj[i]]
    ELSE Append(obj, Entry(k, v))

RECURSIVE spreadFrom(_, _, _)
spreadFrom(a, b, i) ==
  IF i > Len(b) THEN a ELSE spreadFrom(setKey(a, b[i].key, b[i].value), b, i + 1)

\* { ...a, ...b }
spread(a, b) == spreadFrom(a, b, 1)

Return(ents) == [kind |-> "return", entries |-> ents, val |-> <<>>, msg |-> ""]
Fail(m, s)   == [kind |-> "throw", entries |-> <<>>, val |-> s, msg |-> m]

----------------------------------------------------------------------------
(* The file system: fs.files and fs.dirs are sets of paths relative to cwd *)
(* ("" is cwd itself), a path being a string without leading "./".         *)

\* path.resolve(cwd, base) relative to cwd, for a base "./seg/seg" or
\* "./seg/seg/": the leading "./" and one trailing "/" are dropped.
resolveBase(base) ==
  LET a == IF startsWith(base, <<".", "/">>) THEN SubSeq(base, 3, Len(base)) ELSE base
  IN IF Len(a) > 0 /\ a[Len(a)] = "/" THEN SubSeq(a, 1, Len(a) - 1) ELSE a

\* The absolute path printed in an error message.
absolutePath(cwd, rel) == IF rel = <<>> THEN cwd ELSE cwd \o <<"/">> \o rel

\* A copy for which every path exists.
existsSync_always(fs, p) == TRUE

existsSync(fs, p) == p \in fs.dirs \/ p \in fs.files

\* path.relative(directoryToExpand, expandedPath) of every regular file that
\* readdirSync(directoryToExpand, {recursive: true}) lists.
relativeFiles(fs, dir) ==
  LET prefix == IF dir = <<>> THEN <<>> ELSE dir \o <<"/">>
  IN {SubSeq(f, Len(prefix) + 1, Len(f)) :
        f \in {g \in fs.files : startsWith(g, prefix) /\ Len(g) > Len(prefix)}}

RECURSIVE SetToSeq(_)
SetToSeq(S) ==
  IF S = {} THEN <<>>
  ELSE LET x == CHOOSE y \in S : TRUE IN <<x>> \o SetToSeq(S \ {x})

----------------------------------------------------------------------------
(* expandWildcardEntry, expandWildcardEntries *)

\* relativeExpandedPath.slice(0, relativeExpandedPath.indexOf(wildcardValueTrail))
patternMatchOf(relativeExpandedPath, wildcardValueTrail) ==
  SubSeq(relativeExpandedPath, 1, indexOf(relativeExpandedPath, wildcardValueTrail) - 1)

expandWildcardEntry(wildcardKey, wildcardValue, cwd, fs) ==
  LET wildcardValueBase  == splitBase(wildcardValue)
      wildcardValueTrail == splitTrail(wildcardValue)
      directoryToExpand  == resolveBase(wildcardValueBase)
      matching == {r \in relativeFiles(fs, directoryToExpand) : endsWith(r, wildcardValueTrail)}
      expanded == {Entry(replaceAsterisk(wildcardKey, patternMatchOf(r, wildcardValueTrail)),
                         replaceAsterisk(wildcardValue, patternMatchOf(r, wildcardValueTrail))) :
                     r \in matching}
  IN IF ~existsSync(fs, directoryToExpand)
       THEN Fail("Directory not found", absolutePath(cwd, directoryToExpand))
     ELSE IF directoryToExpand \in fs.files
       THEN Fail("ENOTDIR: not a directory, scandir", absolutePath(cwd, directoryToExpand))
     ELSE Return(SetToSeq(expanded))

\* A copy that lets the exclusion marker through.
isNotNull_any(value) == TRUE

\* value !== null, the test that copies a non-wildcard entry through
isNotNull(value) == value.kind # "null"

\* The test of the pruning loop: expandedKey falls under excludedKey.
isExcludedBy(expandedKey, excludedKey) ==
  LET excludedKeyBase  == splitBase(excludedKey)
      excludedKeyTrail == splitTrail(excludedKey)
  IN /\ startsWith(expandedKey, excludedKeyBase)
     /\ endsWith(expandedKey, excludedKeyTrail)
     /\ Len(excludedKeyBase) + Len(excludedKeyTrail) <= Len(expandedKey)

\* The second loop: every expanded entry an excluded key covers is deleted.
pruneExcluded(expandedEntries, excludedWildcardKeys) ==
  SelectSeq(expandedEntries,
            LAMBDA e : ~\E j \in DOMAIN excludedWildcardKeys :
                          isExcludedBy(e.key, excludedWildcardKeys[j]))

RECURSIVE expandLoop(_, _, _, _, _, _, _)
\* The first loop, from entry i of flattenedEntries on.
expandLoop(flattenedEntries, i, expandedEntries, nonWildcardEntries, excludedWildcardKeys, cwd, fs) ==
  IF i > Len(flattenedEntries) THEN
    Return(spread(nonWildcardEntries, pruneExcluded(expandedEntries, excludedWildcardKeys)))
  ELSE
    LET key   == flattenedEntries[i].key
        value == flattenedEntries[i].value
    IN IF includes(key, "*") /\ cwd # <<>> THEN
         IF ~containsSingleAsterisk(key) THEN Fail("Invalid subpath pattern", key)
         ELSE IF value.kind = "null" THEN
           expandLoop(flattenedEntries, i + 1, expandedEntries, nonWildcardEntries,
                      Append(excludedWildcardKeys, key), cwd, fs)
         ELSE IF ~containsSingleAsterisk(value.val) THEN
           Fail("Multiple '*' are not supported", value.val)
         ELSE
           LET one == expandWildcardEntry(key, value.val, cwd, fs)
           IN IF one.kind = "throw" THEN one
              ELSE expandLoop(flattenedEntries, i + 1, spread(expandedEntries, one.entries),
                              nonWildcardEntries, excludedWildcardKeys, cwd, fs)
       ELSE IF isNotNull(value) THEN
         expandLoop(flattenedEntries, i + 1, expandedEntries,
                    setKey(nonWildcardEntries, key, value.val), excludedWildcardKeys, cwd, fs)
       ELSE
         expandLoop(flattenedEntries, i + 1, expandedEntries, nonWildcardEntries,
                    excludedWildcardKeys, cwd, fs)

\* A copy that expands the patterns whether or not cwd is given.
expandWildcardEntries_always(flattenedEntries, cwd, fs) ==
  expandLoop(flattenedEntries, 1, <<>>, <<>>, <<>>, <<"/", "r">>, fs)

\* flattenedEntries: [key, value] with value an outcome of kind "string" or
\* "null"; the result's values are strings.  cwd = "" stands for a cwd that
\* is undefined or empty: the code only tests it for truth before using it.
expandWildcardEntries(flattenedEntries, cwd, fs) ==
  expandLoop(flattenedEntries, 1, <<>>, <<>>, <<>>, cwd, fs)

----------------------------------------------------------------------------
(* getFlattenedEntries, normalizeExports *)

RECURSIVE flattenLoop(_, _, _, _)
\* The loop over Object.entries(exports), from entry i on: the flattened
\* entries, or the error a match threw.  The entries of an array have the
\* keys "0", "1", ..., none of which starts with '.'.
flattenLoop(exports, i, flattenedEntries, conditions) ==
  IF exports.tag # "obj" \/ i > Len(exports.items) THEN Return(flattenedEntries)
  ELSE IF ~startsWith(exports.items[i].key, <<".">>) THEN
    flattenLoop(exports, i + 1, flattenedEntries, conditions)
  ELSE
    LET value == matchConditions(exports.items[i].value, conditions)
    IN IF value.kind = "throw" THEN Fail(value.msg, value.val)
       ELSE IF value.kind # "undefined" THEN
         flattenLoop(exports, i + 1, setKey(flattenedEntries, exports.items[i].key, value), conditions)
       ELSE flattenLoop(exports, i + 1, flattenedEntries, conditions)

\* Lines 155-170: flattenedEntries before the wildcards are expanded.
collectEntries(exports, conditions) ==
  LET singleSubpath == matchConditions(exports, conditions)
  IN IF singleSubpath.kind = "throw" THEN Fail(singleSubpath.msg, singleSubpath.val)
     ELSE IF singleSubpath.kind = "string" THEN Return(<<Entry(<<".">>, singleSubpath)>>)
     ELSE flattenLoop(exports, 1, <<>>, conditions)

getFlattenedEntries(exports, conditions, cwd, fs) ==
  LET flattenedEntries == collectEntries(exports, conditions)
  IN IF flattenedEntries.kind = "throw" THEN flattenedEntries
     ELSE expandWildcardEntries(flattenedEntries.entries, cwd, fs)

\* !exports
isFalsy(exports) ==
  \/ exports.tag \in {"null", "undefined"}
  \/ exports.tag = "str" /\ exports.str = <<>>

\* A condition set that keeps the first name of the caller's list only.
conditionSet_first(conditions) ==
  IF isNonEmptyArray(conditions) THEN {conditions.items[1]} ELSE Range(defaultConditions)

\* A condition set that adds the caller's names to the default ones.
conditionSet_added(conditions) ==
  IF isNonEmptyArray(conditions)
    THEN Range(defaultConditions) \cup Range(conditions.items)
    ELSE Range(defaultConditions)

\* new Set(isNonEmptyArray(conditions) ? conditions : defaultConditions)
conditionSet(conditions) ==
  IF isNonEmptyArray(conditions) THEN Range(conditions.items) ELSE Range(defaultConditions)

\* options: [conditions, cwd]; conditions is an array node or UndefinedNode
\* (options omitted, or without conditions).
normalizeExports(exports, options, fs) ==
  IF isFalsy(exports) THEN Fail("Exports is not defined", <<>>)
  ELSE IF checkExportsConfiguration(exports) # "" THEN Fail(checkExportsConfiguration(exports), <<>>)
  ELSE getFlattenedEntries(exports, conditionSet(options.conditions), options.cwd, fs)

----------------------------------------------------------------------------
(* The inputs *)

\* The most nodes (strings, arrays, objects, nulls) an exports value holds.
MaxSize == 4

\* The longest options.conditions array.
MaxConditions == 2

\* The most entries of an exports object that has subpath keys.
MaxSubpaths == 2

str_a      == <<".", "/", "a">>
str_b      == <<".", "/", "b">>
str_bad_a  == <<"a">>
str_bad_b  == <<".", "b">>
str_dot    == <<".">>
str_x      == <<".", "/", "x">>
str_f_star == <<".", "/", "f", "/", "*">>
str_d_star == <<".", "/", "d", "/", "*">>
str_cwd    == <<"/", "r">>

Targets       == {str_a, str_b, str_bad_a, str_bad_b}
ConditionKeys == {str_import, str_require, str_worker}
SubpathKeys   == {str_dot, str_x, str_f_star}
OptionNames   == {str_import, str_worker}

\* The sequences of n distinct members of keys.
KeySeqs(keys, n) ==
  {ks \in [1..n -> keys] : \A i, j \in 1..n : i # j => ks[i] # ks[j]}

RECURSIVE NodesOfSize(_)
RECURSIVE Forests(_)

\* The non-empty sequences of nodes that hold m nodes in all.
Forests(m) ==
  IF m = 0 THEN {<<>>}
  ELSE UNION {{<<t>> \o rest : t \in NodesOfSize(k), rest \in Forests(m - k)} : k \in 1..m}

\* The ExportsEntry values of exactly n nodes: string | ConditionalExports |
\* ExportsEntry[].
NodesOfSize(n) ==
  IF n = 1 THEN {StrNode(t) : t \in Targets} \cup {ArrNode(<<>>), ObjNode(<<>>)}
  ELSE LET forests == {f \in Forests(n - 1) : Len(f) > 0}
       IN {ArrNode(f) : f \in forests}
          \cup UNION {{ObjNode([i \in 1..Len(f) |-> Entry(ks[i], f[i])]) :
                         ks \in KeySeqs(ConditionKeys, Len(f))} : f \in forests}

Nodes == UNION {NodesOfSize(n) : n \in 1..MaxSize}

RECURSIVE SubpathForests(_)
\* As Forests, for the values of a SubpathExports: ExportsEntry | null, a
\* wildcard target among the strings.
SubpathForests(m) ==
  IF m = 0 THEN {<<>>}
  ELSE UNION {{<<t>> \o rest :
                 t \in (IF k = 1 THEN NodesOfSize(1) \cup {NullNode, StrNode(str_d_star)}
                                 ELSE NodesOfSize(k)),
                 rest \in SubpathForests(m - k)} : k \in 1..m}

\* The objects with a subpath key: SubpathExports, and the objects that mix
\* subpath keys with a condition name.
SubpathMaps ==
  UNION {UNION {{ObjNode([i \in 1..Len(f) |-> Entry(ks[i], f[i])]) :
                   ks \in {k \in KeySeqs(SubpathKeys \cup {str_import}, Len(f)) :
                             \E i \in 1..Len(f) : k[i] \in SubpathKeys}} :
                f \in {g \in SubpathForests(n - 1) : Len(g) \in 1..MaxSubpaths}} : n \in 2..MaxSize}

\* The falsy values null, undefined and ""; the entries; the subpath maps.
ExportsInputs == {NullNode, UndefinedNode, StrNode(<<>>)} \cup Nodes \cup SubpathMaps

ConditionsInputs ==
  {UndefinedNode} \cup UNION {{ArrNode(c) : c \in [1..n -> OptionNames]} : n \in 0..MaxConditions}

\* No directory at cwd; and a tree under cwd.
NoFiles  == [dirs |-> {}, files |-> {}]
SomeFiles ==
  [dirs  |-> {<<>>, <<"d">>},
   files |-> {<<"d", "/", "a">>, <<"d", "/", "b">>}]

FileSystems == {NoFiles, SomeFiles}

----------------------------------------------------------------------------
(* One call of normalizeExports *)

VARIABLES exports, options, fs, pc, conditions, singleSubpath, flattenedEntries, result

vars == <<exports, options, fs, pc, conditions, singleSubpath, flattenedEntries, result>>

NoResult == [kind |-> "none", entries |-> <<>>, val |-> <<>>, msg |-> ""]

\* With cwd absent the file system is one fixed tree: expandWildcardEntries
\* reads fs only under `key.includes('*') && cwd`.
Init ==
  /\ exports \in ExportsInputs
  /\ options \in [conditions : ConditionsInputs, cwd : {<<>>, str_cwd}]
  /\ fs \in FileSystems
  /\ options.cwd = <<>> => fs = SomeFiles
  /\ pc = "start"
  /\ conditions = {}
  /\ singleSubpath = Undefined
  /\ flattenedEntries = NoResult
  /\ result = NoResult

\* normalizeExports, lines 200-208: the checks, then the condition set.
Check ==
  /\ pc = "start"
  /\ IF isFalsy(exports) THEN
       /\ result' = Fail("Exports is not defined", <<>>)
       /\ pc' = "done"
       /\ UNCHANGED conditions
     ELSE IF checkExportsConfiguration(exports) # "" THEN
       /\ result' = Fail(checkExportsConfiguration(exports), <<>>)
       /\ pc' = "done"
       /\ UNCHANGED conditions
     ELSE
       /\ conditions' = conditionSet(options.conditions)
       /\ pc' = "flatten"
       /\ UNCHANGED result
  /\ UNCHANGED <<exports, options, fs, singleSubpath, flattenedEntries>>

\* getFlattenedEntries, lines 155-170.
Flatten ==
  /\ pc = "flatten"
  /\ singleSubpath' = matchConditions(exports, conditions)
  /\ flattenedEntries' = collectEntries(exports, conditions)
  /\ IF flattenedEntries'.kind = "throw"
       THEN result' = flattenedEntries' /\ pc' = "done"
       ELSE pc' = "expand" /\ UNCHANGED result
  /\ UNCHANGED <<exports, options, fs, conditions>>

\* expandWildcardEntries, and the return of normalizeExports.
Expand ==
  /\ pc = "expand"
  /\ result' = expandWildcardEntries(flattenedEntries.entries, options.cwd, fs)
  /\ pc' = "done"
  /\ UNCHANGED <<exports, options, fs, conditions, singleSubpath, flattenedEntries>>

Next == Check \/ Flatten \/ Expand

Spec == Init /\ [][Next]_vars

----------------------------------------------------------------------------
(* Calls on subpath maps with wildcard patterns, over several trees *)

\* The most entries of a subpath map with wildcard patterns.
MaxWildEntries == 2

str_f_a       == <<".", "/", "f", "/", "a">>
str_f_a_star  == <<".", "/", "f", "/", "a", "*">>
str_g_star    == <<".", "/", "g", "/", "*">>
str_star_star == <<".", "/", "*", "/", "*">>
str_d_star_j  == <<".", "/", "d", "/", "*", "j">>
str_e_star    == <<".", "/", "e", "/", "*">>
str_m_star    == <<".", "/", "m", "/", "*">>

\* Subpath keys: literal ones, patterns with one '*', a pattern with two.
WildKeys == {str_x, str_f_a, str_f_star, str_f_a_star, str_g_star, str_star_star}

\* Targets: a literal one, patterns with an empty and a non-empty suffix
\* under directories "d", "e" and "m", a pattern with two '*'.
WildTargets == {str_a, str_d_star, str_d_star_j, str_e_star, str_m_star, str_star_star}

\* The values of a subpath map: a target, or null.
WildValues == {StrNode(t) : t \in WildTargets} \cup {NullNode}

WildMaps ==
  UNION {{ObjNode([i \in 1..n |-> Entry(ks[i], vs[i])]) :
            ks \in KeySeqs(WildKeys, n), vs \in [1..n -> WildValues]} : n \in 1..MaxWildEntries}

\* A tree whose files "aj" and "ajj" repeat the suffix "j", with a file in a
\* subdirectory; "e" is a regular file, "m" does not exist.
FlatFiles ==
  [dirs  |-> {<<>>, <<"d">>},
   files |-> {<<"d", "/", "a">>, <<"d", "/", "a", "j">>}]
DeepFiles ==
  [dirs  |-> {<<>>, <<"d">>, <<"d", "/", "s">>},
   files |-> {<<"d", "/", "a", "j">>, <<"d", "/", "a", "j", "j">>,
              <<"d", "/", "s", "/", "b", "j">>, <<"e">>}]

\* File names are made of letters: none holds a '*'.
WildFileSystems == {NoFiles, FlatFiles, DeepFiles}

InitWild ==
  /\ exports \in WildMaps
  /\ options \in [conditions : {UndefinedNode}, cwd : {<<>>, str_cwd}]
  /\ fs \in WildFileSystems
  /\ pc = "start"
  /\ conditions = {}
  /\ singleSubpath = Undefined
  /\ flattenedEntries = NoResult
  /\ result = NoResult

SpecWild == InitWild /\ [][Next]_vars

----------------------------------------------------------------------------
(* Properties *)

\* getFlattenedEntries has matched the exports value.
Matched == flattenedEntries.kind # "none"

\* The match of every element of an array, of every value of an object.
Outcomes(node) ==
  [i \in DOMAIN node.items |->
     matchConditions(IF node.tag = "obj" THEN node.items[i].value ELSE node.items[i], conditions)]

\* The pairs of an object, its insertion order forgotten.
Pairs(obj) == {<<obj[i].key, obj[i].value>> : i \in DOMAIN obj}

Min(S) == CHOOSE i \in S : \A k \in S : i <= k
Max(S) == CHOOSE i \in S : \A k \in S : i >= k

IsValidTarget(node) ==
  node.tag = "str" /\ Len(node.str) >= 2 /\ node.str[1] = "." /\ node.str[2] = "/"

StartsWithPeriod(key) == Len(key) >= 1 /\ key[1] = "."

\* C1: the match of a ConditionalMap is the match of its first entry, in
\* declaration order, whose key is in the condition set and whose own match
\* is not Unresolved (a failure included); it is Unresolved when there is no
\* such entry.  An entry whose key is not in the set has no effect, whatever
\* its value.
C1_FirstActiveEntry ==
  (Matched /\ exports.tag = "obj") =>
    LET out    == Outcomes(exports)
        active == {i \in DOMAIN exports.items :
                     exports.items[i].key \in conditions /\ out[i].kind # "undefined"}
    IN singleSubpath = IF active = {} THEN Undefined ELSE out[Min(active)]

\* {inactive: <malformed>, active: <Unresolved>, active: <target>} resolves
\* to the third entry's target.
C1_Witness ==
  /\ Matched /\ exports.tag = "obj" /\ Len(exports.items) = 3
  /\ exports.items[1].key \notin conditions
  /\ exports.items[1].value.tag = "str" /\ ~IsValidTarget(exports.items[1].value)
  /\ exports.items[2].key \in conditions /\ Outcomes(exports)[2].kind = "undefined"
  /\ exports.items[3].key \in conditions /\ Outcomes(exports)[3].kind = "string"
  /\ singleSubpath = Outcomes(exports)[3]

\* C2: any two options.conditions arrays with the same members give the same
\* outcome, the same flat map or the same failure; and when the first two
\* entries of a root ConditionalMap are both active and the first is a valid
\* target, the call returns that target whatever the order of the list.
C2_ConditionOrderIrrelevant ==
  pc = "done" =>
    /\ \A c \in ConditionsInputs :
         (/\ c.tag = "arr" /\ options.conditions.tag = "arr"
          /\ Range(c.items) = Range(options.conditions.items))
         => normalizeExports(exports, [options EXCEPT !.conditions = c], fs) = result
    /\ (/\ exports.tag = "obj" /\ Len(exports.items) >= 2
        /\ options.conditions.tag = "arr"
        /\ exports.items[1].key \in Range(options.conditions.items)
        /\ exports.items[2].key \in Range(options.conditions.items)
        /\ IsValidTarget(exports.items[1].value))
       => result = Return(<<Entry(str_dot, exports.items[1].value.str)>>)

\* conditions: [worker, import] on {import: A, worker: B} returns A.
C2_Witness ==
  /\ pc = "done"
  /\ options.conditions = ArrNode(<<str_worker, str_import>>)
  /\ exports = ObjNode(<<Entry(str_import, StrNode(str_a)), Entry(str_worker, StrNode(str_b))>>)
  /\ result = Return(<<Entry(str_dot, str_a)>>)

IsSubpathMap(node) ==
  /\ node.tag = "obj" /\ node.items # <<>>
  /\ \A i \in DOMAIN node.items : StartsWithPeriod(node.items[i].key)

\* C5: with cwd absent, when the whole exports value resolves to a target t
\* the result is {".": t}; when the exports value is a mapping whose keys
\* all start with '.' and no value fails, the call returns exactly the pairs
\* k -> t of the declared keys k whose value resolves to t (none for an
\* Unresolved or Excluded value, the empty map when nothing resolves).
C5_FlatMapWithoutCwd ==
  (pc = "done" /\ options.cwd = <<>> /\ Matched) =>
    /\ singleSubpath.kind = "string"
         => result = Return(<<Entry(str_dot, singleSubpath.val)>>)
    /\ (/\ singleSubpath.kind # "string" /\ IsSubpathMap(exports)
        /\ \A i \in DOMAIN exports.items : Outcomes(exports)[i].kind # "throw")
       => /\ result.kind = "return"
          /\ Pairs(result.entries) =
               {<<exports.items[i].key, Outcomes(exports)[i].val>> :
                  i \in {j \in DOMAIN exports.items : Outcomes(exports)[j].kind = "string"}}
          /\ \A i \in DOMAIN result.entries :
               \E j \in DOMAIN exports.items : result.entries[i].key = exports.items[j].key

\* A mapping of two subpaths with cwd absent, one resolved and one
\* Excluded: the result holds the resolved one only.
C5_Witness ==
  /\ pc = "done" /\ options.cwd = <<>> /\ IsSubpathMap(exports)
  /\ Len(exports.items) = 2
  /\ Outcomes(exports)[1].kind = "null"
  /\ Outcomes(exports)[2].kind = "string"
  /\ result = Return(<<Entry(exports.items[2].key, Outcomes(exports)[2].val)>>)

RECURSIVE ReachesInvalid(_, _, _)
\* Matching reaches the malformed target s in node without entering an
\* array: node is s, or an active entry of node reaches s and every active
\* entry before it is Unresolved.
ReachesInvalid(node, conds, s) ==
  \/ node.tag = "str" /\ node.str = s /\ ~IsValidTarget(node)
  \/ /\ node.tag = "obj"
     /\ \E i \in DOMAIN node.items :
          /\ node.items[i].key \in conds
          /\ ReachesInvalid(node.items[i].value, conds, s)
          /\ \A j \in 1..(i - 1) :
               node.items[j].key \in conds
                 => matchConditions(node.items[j].value, conds).kind = "undefined"

RECURSIVE HasNoArray(_)
HasNoArray(node) ==
  /\ node.tag # "arr"
  /\ node.tag = "obj" => \A i \in DOMAIN node.items : HasNoArray(node.items[i].value)

Strings == Targets \cup {str_d_star}

\* C6: when matching reaches a malformed target s outside any array, as the
\* root value, under active conditions scanned before a sibling resolves, or
\* as the first failing value of a subpath, the call fails with "Invalid
\* target" and s; an exports value without arrays whose malformed targets
\* are not reached does not fail with "Invalid target".
C6_InvalidTargetWhenReached ==
  (pc = "done" /\ Matched) =>
    /\ \A s \in Strings :
         ReachesInvalid(exports, conditions, s) => result = Fail("Invalid target", s)
    /\ \A s \in Strings : \A i \in DOMAIN exports.items :
         (/\ IsSubpathMap(exports)
          /\ ReachesInvalid(exports.items[i].value, conditions, s)
          /\ \A j \in 1..(i - 1) : Outcomes(exports)[j].kind # "throw")
         => result = Fail("Invalid target", s)
    /\ (/\ HasNoArray(exports)
        /\ \A s \in Strings : ~ReachesInvalid(exports, conditions, s)
        /\ \A s \in Strings : \A i \in DOMAIN exports.items :
             IsSubpathMap(exports) => ~ReachesInvalid(exports.items[i].value, conditions, s))
       => result.msg # "Invalid target"

\* {active: <Unresolved>, active: {active: <malformed>}}: the call fails
\* with the malformed target.
C6_Witness ==
  /\ pc = "done" /\ exports.tag = "obj" /\ Len(exports.items) = 2
  /\ exports.items[1].key \in conditions /\ Outcomes(exports)[1].kind = "undefined"
  /\ exports.items[2].key \in conditions /\ exports.items[2].value.tag = "obj"
  /\ result.kind = "throw" /\ result.msg = "Invalid target"
  /\ ReachesInvalid(exports, conditions, result.val)

\* {inactive: <malformed>, active: <target>, active: <malformed>}: neither
\* malformed target is reached and the call returns.
C6_WitnessUnreached ==
  /\ pc = "done" /\ exports.tag = "obj" /\ Len(exports.items) = 3
  /\ exports.items[1].key \notin conditions /\ exports.items[1].value = StrNode(str_bad_a)
  /\ exports.items[2].key \in conditions /\ IsValidTarget(exports.items[2].value)
  /\ exports.items[3].key \in conditions /\ exports.items[3].value = StrNode(str_bad_b)
  /\ result.kind = "return"

\* The alternatives of the array exports whose match is a target (Resolved),
\* null (Excluded), a failure.
ResolvedAt == {i \in DOMAIN exports.items : Outcomes(exports)[i].kind = "string"}
ExcludedAt == {i \in DOMAIN exports.items : Outcomes(exports)[i].kind = "null"}
RaisedAt   == {i \in DOMAIN exports.items : Outcomes(exports)[i].kind = "throw"}

IsAlternatives == Matched /\ exports.tag = "arr" /\ exports.items # <<>>

\* C7 as stated: a failure is swallowed when a later alternative resolves,
\* the list then giving the first resolved target; with no Resolved
\* alternative the list fails with the last failure raised, and is
\* Unresolved when none was raised.
C7_Original ==
  IsAlternatives =>
    /\ (ResolvedAt # {} /\ \E i \in RaisedAt : i < Min(ResolvedAt))
         => singleSubpath = Outcomes(exports)[Min(ResolvedAt)]
    /\ (ResolvedAt = {} /\ RaisedAt # {}) => singleSubpath = Outcomes(exports)[Max(RaisedAt)]
    /\ (ResolvedAt = {} /\ RaisedAt = {}) => singleSubpath = Undefined

\* C7: the first alternative that is Resolved or Excluded ends the scan and
\* is the result of the list, the failures raised before it swallowed; when
\* no alternative is Resolved or Excluded the list fails with the last
\* failure raised, and is Unresolved when none was raised.
C7_AlternativesFailures ==
  IsAlternatives =>
    /\ (ResolvedAt \cup ExcludedAt # {})
         => singleSubpath = Outcomes(exports)[Min(ResolvedAt \cup ExcludedAt)]
    /\ (ResolvedAt \cup ExcludedAt = {} /\ RaisedAt # {})
         => /\ singleSubpath = Outcomes(exports)[Max(RaisedAt)]
            /\ result = Fail(singleSubpath.msg, singleSubpath.val)
    /\ (ResolvedAt \cup ExcludedAt = {} /\ RaisedAt = {}) => singleSubpath = Undefined

\* Two alternatives raise different failures, a third is Unresolved: the
\* call fails with the second failure.
C7_Witness ==
  /\ pc = "done" /\ IsAlternatives /\ Len(exports.items) = 3
  /\ RaisedAt = {1, 2} /\ Outcomes(exports)[3].kind = "undefined"
  /\ Outcomes(exports)[1].val # Outcomes(exports)[2].val
  /\ result = Fail("Invalid target", Outcomes(exports)[2].val)

\* [<failing>, <target>]: the failure is swallowed.
C7_WitnessSwallowed ==
  /\ pc = "done" /\ IsAlternatives /\ Len(exports.items) = 2
  /\ RaisedAt = {1} /\ ResolvedAt = {2}
  /\ result = Return(<<Entry(str_dot, Outcomes(exports)[2].val)>>)

\* C8: the match of an empty array is Excluded (a subpath whose value is []
\* is recorded as excluded), and Excluded is a veto: when the first active
\* entry of a ConditionalMap that is not Unresolved is Excluded, or the first
\* alternative of an array that is neither Unresolved nor failing is
\* Excluded, the node is Excluded whatever follows, and at the root the call
\* returns the empty map; [{require: []}, "./a"] with `require` active
\* gives {}.
C8_ExcludedIsVeto ==
  Matched =>
    LET out     == Outcomes(exports)
        decided == {i \in DOMAIN exports.items :
                      /\ out[i].kind \in {"string", "null"}
                      /\ exports.tag = "obj" => exports.items[i].key \in conditions}
        raised  == {i \in DOMAIN exports.items :
                      /\ out[i].kind = "throw"
                      /\ exports.tag = "obj" => exports.items[i].key \in conditions}
    IN /\ \A i \in DOMAIN exports.items :
            (IsSubpathMap(exports) /\ exports.items[i].value = ArrNode(<<>>)
               /\ flattenedEntries.kind = "return")
            => Entry(exports.items[i].key, Null) \in Range(flattenedEntries.entries)
       /\ (/\ exports.tag \in {"arr", "obj"} /\ decided # {}
           /\ out[Min(decided)].kind = "null"
           /\ exports.tag = "obj" => \A i \in raised : i > Min(decided))
          => /\ singleSubpath = Null
             /\ pc = "done" => result = Return(<<>>)
       /\ (/\ exports = ArrNode(<<ObjNode(<<Entry(str_require, ArrNode(<<>>))>>), StrNode(str_a)>>)
           /\ str_require \in conditions /\ pc = "done")
          => result = Return(<<>>)

\* [{active: []}, <target>] gives the empty map.
C8_Witness ==
  /\ pc = "done" /\ exports.tag = "arr" /\ Len(exports.items) = 2
  /\ exports.items[1].tag = "obj" /\ Len(exports.items[1].items) = 1
  /\ exports.items[1].items[1].key \in conditions
  /\ exports.items[1].items[1].value = ArrNode(<<>>)
  /\ IsValidTarget(exports.items[2])
  /\ singleSubpath = Null
  /\ result = Return(<<>>)

\* C9 as stated: an Excluded alternative is passed over, and a later
\* alternative that resolves, the first to do so, is the result of the list.
C9_Original ==
  (IsAlternatives /\ ResolvedAt # {} /\ \E i \in ExcludedAt : i < Min(ResolvedAt))
    => singleSubpath = Outcomes(exports)[Min(ResolvedAt)]

\* C9: an Excluded alternative that comes before every Resolved one ends
\* the scan: the list is Excluded and the later target is not returned.
C9_ExcludedEndsScan ==
  (IsAlternatives /\ ResolvedAt # {} /\ \E i \in ExcludedAt : i < Min(ResolvedAt))
    => /\ singleSubpath = Null
       /\ pc = "done" => result = Return(<<>>)

\* [[], <target>] gives the empty map.
C9_Witness ==
  /\ pc = "done" /\ IsAlternatives /\ Len(exports.items) = 2
  /\ exports.items[1] = ArrNode(<<>>) /\ IsValidTarget(exports.items[2])
  /\ result = Return(<<>>)

IsFalsyValue(node) == node.tag \in {"null", "undefined"} \/ node = StrNode(<<>>)

HasMixedKeys(node) ==
  /\ node.tag = "obj"
  /\ \E i \in DOMAIN node.items : StartsWithPeriod(node.items[i].key)
  /\ \E i \in DOMAIN node.items : ~StartsWithPeriod(node.items[i].key)

CheckMessages ==
  {"Exports is not defined", "No entries found in exports map", "Invalid exports configuration"}

\* C10: a falsy exports value fails with 'Exports is not defined', an empty
\* object or array with 'No entries found in exports map', and an object
\* with some but not all keys starting with '.', and no other value, with
\* 'Invalid exports configuration'; a call that fails so has matched
\* nothing, and every other value passes the checks.
C10_ChecksComeFirst ==
  pc # "start" =>
    /\ IsFalsyValue(exports) => result = Fail("Exports is not defined", <<>>)
    /\ exports \in {ObjNode(<<>>), ArrNode(<<>>)}
         => result = Fail("No entries found in exports map", <<>>)
    /\ HasMixedKeys(exports) <=> result = Fail("Invalid exports configuration", <<>>)
    /\ result.msg \in CheckMessages => (pc = "done" /\ ~Matched /\ conditions = {})
    /\ (~IsFalsyValue(exports) /\ exports \notin {ObjNode(<<>>), ArrNode(<<>>)}
          /\ ~HasMixedKeys(exports))
         => result.msg \notin CheckMessages

\* An object that mixes a wildcard subpath with a condition name, holds a
\* malformed target and is given a cwd fails with 'Invalid exports
\* configuration'.
C10_Witness ==
  /\ pc = "done" /\ options.cwd # <<>>
  /\ exports.tag = "obj" /\ Len(exports.items) = 2
  /\ exports.items[1].key = str_f_star
  /\ exports.items[1].value.tag = "str" /\ ~IsValidTarget(exports.items[1].value)
  /\ ~StartsWithPeriod(exports.items[2].key)
  /\ result = Fail("Invalid exports configuration", <<>>)

----------------------------------------------------------------------------
(* Wildcard expansion *)

\* The flattened entries that hold a target, as key -> target pairs in
\* declaration order.
LiteralEntries ==
  LET resolved == SelectSeq(flattenedEntries.entries, LAMBDA e : e.value.kind = "string")
  IN [i \in DOMAIN resolved |-> Entry(resolved[i].key, resolved[i].value.val)]

\* C11: with cwd absent the call returns, whatever the file system holds
\* and however many '*' a key or a target has, exactly the literal
\* key -> target pairs of the subpaths that resolve; the Excluded ones are
\* dropped.
C11_LiteralWithoutCwd ==
  (pc = "done" /\ options.cwd = <<>> /\ flattenedEntries.kind = "return") =>
    /\ result = Return(LiteralEntries)
    /\ \A f \in WildFileSystems : normalizeExports(exports, options, f) = result

\* Without cwd and without any directory: a key with two '*' keeps its
\* pattern target and the Excluded pattern beside it is dropped.
C11_Witness ==
  /\ pc = "done" /\ options.cwd = <<>> /\ fs = NoFiles
  /\ exports = ObjNode(<<Entry(str_star_star, StrNode(str_m_star)), Entry(str_f_star, NullNode)>>)
  /\ result = Return(<<Entry(str_star_star, str_m_star)>>)

\* The call has run expandWildcardEntries with a cwd.
Expanded == pc = "done" /\ options.cwd # <<>> /\ flattenedEntries.kind = "return"

\* The flattened entries the first loop expands: a key and a target with
\* one '*' each.
IsPatternPair(e) ==
  /\ e.value.kind = "string"
  /\ containsSingleAsterisk(e.key)
  /\ containsSingleAsterisk(e.value.val)

PatternPairs == {e \in Range(flattenedEntries.entries) : IsPatternPair(e)}

\* The directory the target pattern names, when it is one of the tree.
TargetDirectory(target) == resolveBase(splitBase(target))

\* The relative paths of the regular files under the target's directory
\* that end with the target's literal suffix.
MatchingFiles(target) ==
  {r \in relativeFiles(fs, TargetDirectory(target)) : endsWith(r, splitTrail(target))}

\* r without its trailing suffix.
Fragment(r, target) == SubSeq(r, 1, Len(r) - Len(splitTrail(target)))

\* The entry a matching file r is to produce.
EntryOfFile(e, r) ==
  Entry(replaceAsterisk(e.key, Fragment(r, e.value.val)),
        splitBase(e.value.val) \o r)

\* C17: each file under the target's directory whose relative path r ends
\* with the suffix gives the entry whose target is the prefix followed by r
\* and whose key is the subpath pattern with its '*' replaced by r without
\* the trailing suffix, also for an empty or a repeated suffix.
C17_FragmentIsBetweenPrefixAndSuffix ==
  Expanded =>
    \A e \in PatternPairs :
      TargetDirectory(e.value.val) \in fs.dirs =>
        \A r \in MatchingFiles(e.value.val) :
          EntryOfFile(e, r) \in
            Range(expandWildcardEntry(e.key, e.value.val, options.cwd, fs).entries)

\* The pattern "./f/*" -> "./d/*" over the files d/a and d/aj gives the one
\* entry "./f/" -> "./d/": the fragment cut at indexOf("") is empty.
C17_Witness ==
  /\ Expanded /\ fs = FlatFiles
  /\ exports = ObjNode(<<Entry(str_f_star, StrNode(str_d_star))>>)
  /\ result = Return(<<Entry(<<".", "/", "f", "/">>, <<".", "/", "d", "/">>)>>)

\* The keys of an object.
Keys(entries) == {entries[i].key : i \in DOMAIN entries}

\* C12: the expansion of one pattern pair over an existing directory has as
\* many entries, with distinct keys, as there are regular files at any
\* depth under the directory whose relative path ends with the suffix:
\* each such file gives one entry, distinct files give distinct keys, and
\* nothing else gives an entry.
C12_OneEntryPerMatchingFile ==
  Expanded =>
    \A e \in PatternPairs :
      TargetDirectory(e.value.val) \in fs.dirs =>
        LET one == expandWildcardEntry(e.key, e.value.val, options.cwd, fs)
        IN /\ one.kind = "return"
           /\ Cardinality(Keys(one.entries)) = Cardinality(MatchingFiles(e.value.val))
           /\ Len(one.entries) = Cardinality(MatchingFiles(e.value.val))

\* Three files under d end with "j" (aj, ajj and s/bj) and the pattern
\* "./f/*" -> "./d/*j" gives two entries: aj and ajj share the key "./f/a".
C12_Witness ==
  /\ Expanded /\ fs = DeepFiles
  /\ exports = ObjNode(<<Entry(str_f_star, StrNode(str_d_star_j))>>)
  /\ Cardinality(MatchingFiles(str_d_star_j)) = 3
  /\ result.kind = "return"
  /\ Keys(result.entries) = {str_f_a, <<".", "/", "f", "/", "s", "/", "b">>}

\* The single-'*' keys declared Excluded: the exclusions of the second loop.
Exclusions ==
  {e.key : e \in {x \in Range(flattenedEntries.entries) :
                    x.value.kind = "null" /\ containsSingleAsterisk(x.key)}}

\* The entries the first loop collects from the pattern pairs.
ExpansionsOf(e) == Range(expandWildcardEntry(e.key, e.value.val, options.cwd, fs).entries)

ExpandedKeys == UNION {{x.key : x \in ExpansionsOf(e)} : e \in PatternPairs}

\* key starts with the prefix of the exclusion, ends with its suffix and is
\* strictly longer than the two together.
FallsUnder(key, exclusion) ==
  /\ startsWith(key, splitBase(exclusion))
  /\ endsWith(key, splitTrail(exclusion))
  /\ Len(key) > Len(splitBase(exclusion)) + Len(splitTrail(exclusion))

\* key is the prefix of the exclusion followed by its suffix.
IsPrefixThenSuffix(key, exclusion) == key = splitBase(exclusion) \o splitTrail(exclusion)

\* C18: an expanded entry whose key is exactly the prefix of an exclusion
\* followed by its suffix, and falls under no exclusion with a non-empty
\* fragment, is kept in the result.
C18_EmptyFragmentIsKept ==
  (Expanded /\ result.kind = "return") =>
    \A k \in ExpandedKeys :
      (/\ \E x \in Exclusions : IsPrefixThenSuffix(k, x)
       /\ \A x \in Exclusions : ~FallsUnder(k, x))
      => k \in Keys(result.entries)

\* "./f/*" -> "./d/*j" expands the file d/aj to the key "./f/a", and the
\* exclusion "./f/a*" removes it: the result is empty.
C18_Witness ==
  /\ Expanded /\ fs = FlatFiles
  /\ exports = ObjNode(<<Entry(str_f_star, StrNode(str_d_star_j)), Entry(str_f_a_star, NullNode)>>)
  /\ ExpandedKeys = {str_f_a}
  /\ result = Return(<<>>)

\* The keys of the non-wildcard entries the first loop copies through.
LiteralKeys == {e.key : e \in {x \in Range(LiteralEntries) : ~includes(x.key, "*")}}

\* C13: when the call returns with cwd given, (a) no key of the result that
\* an expansion produced falls under an exclusion, wherever the exclusion is
\* declared; (b) every expanded entry that falls under no exclusion is in
\* the result; (c) no exclusion is a key of the result.
C13_ExclusionsPruneExpansions ==
  (Expanded /\ result.kind = "return") =>
    /\ \A x \in Exclusions :
         \A k \in Keys(result.entries) \ LiteralKeys : ~FallsUnder(k, x)
    /\ \A k \in ExpandedKeys :
         (\A x \in Exclusions : ~FallsUnder(k, x)) => k \in Keys(result.entries)
    /\ \A x \in Exclusions : x \notin Keys(result.entries)

\* The exclusion "./f/a*" declared before the pattern "./f/*" -> "./d/*j"
\* leaves the expansion "./f/s/b" and removes "./f/a", the key that is its
\* prefix followed by its empty suffix.
C13_Witness ==
  /\ Expanded /\ fs = DeepFiles
  /\ exports = ObjNode(<<Entry(str_f_a_star, NullNode), Entry(str_f_star, StrNode(str_d_star_j))>>)
  /\ ExpandedKeys = {str_f_a, <<".", "/", "f", "/", "s", "/", "b">>}
  /\ Keys(result.entries) = {<<".", "/", "f", "/", "s", "/", "b">>}

\* The directory of a pattern pair is not in the tree, neither as a
\* directory nor as a file.
IsMissing(e) == IsPatternPair(e) /\ TargetDirectory(e.value.val) \notin (fs.dirs \cup fs.files)

\* The error of a pattern pair whose directory is missing.
DirectoryNotFound(e) ==
  Fail("Directory not found", absolutePath(options.cwd, TargetDirectory(e.value.val)))

\* An entry the first loop passes without an error: a key without '*', an
\* exclusion with one '*', a pattern pair over a directory of the tree.
IsSound(e) ==
  \/ ~includes(e.key, "*")
  \/ containsSingleAsterisk(e.key) /\ e.value.kind = "null"
  \/ IsPatternPair(e) /\ TargetDirectory(e.value.val) \in fs.dirs

IsFirstToFail(i) == \A j \in 1..(i - 1) : IsSound(flattenedEntries.entries[j])

\* C15: with cwd given, at the first entry that can fail, a key with more
\* than one '*', Resolved or Excluded, gives "Invalid subpath pattern
\* '<key>'"; a key with one '*' and a target gives "Multiple '*' in
\* '<target>' are not supported" exactly when the target has more than one
\* '*'; both come before the directory of the entry is looked up.
C15_AsteriskValidation ==
  Expanded =>
    \A i \in DOMAIN flattenedEntries.entries :
      LET e == flattenedEntries.entries[i]
      IN IsFirstToFail(i) =>
           /\ countAsterisks(e.key) > 1 => result = Fail("Invalid subpath pattern", e.key)
           /\ (countAsterisks(e.key) = 1 /\ e.value.kind = "string") =>
                (result = Fail("Multiple '*' are not supported", e.value.val)
                   <=> countAsterisks(e.value.val) > 1)

\* The pattern "./f/*" with the target "./a", which has no '*', fails with
\* "Multiple '*' in './a' are not supported".
C15_Witness ==
  /\ Expanded
  /\ exports = ObjNode(<<Entry(str_f_star, StrNode(str_a))>>)
  /\ countAsterisks(str_a) = 0
  /\ result = Fail("Multiple '*' are not supported", str_a)

NonWildcardEntries == {e \in Range(LiteralEntries) : ~includes(e.key, "*")}

\* C19: when the call returns, every subpath without '*' that resolves to
\* a target is in the result with that target, whatever the patterns
\* expand to and whatever the exclusions cover.
C19_LiteralEntriesAreKept ==
  (pc = "done" /\ result.kind = "return") =>
    \A e \in NonWildcardEntries : e \in Range(result.entries)

\* The literal "./f/a" -> "./a" beside the pattern "./f/*" -> "./d/*j",
\* which expands the file d/aj to the same key: the result maps "./f/a" to
\* "./d/aj".
C19_Witness ==
  /\ Expanded /\ fs = FlatFiles
  /\ exports = ObjNode(<<Entry(str_f_a, StrNode(str_a)), Entry(str_f_star, StrNode(str_d_star_j))>>)
  /\ result = Return(<<Entry(str_f_a, <<".", "/", "d", "/", "a", "j">>)>>)

====
